---- MODULE Spec2Model ----
(***************************************************************************)
(* django-approval: a monitored entity (scenario model Entry), its         *)
(* sandbox record (EntryApproval built by SandboxMeta), the pre_save /     *)
(* post_save listeners that stage writes, and approve / deny.              *)
(*                                                                         *)
(* Persistent state is the entity row and the sandbox row.  Every Python   *)
(* object that the code mutates in memory (the model instance being saved, *)
(* the record cached on it as `instance.approval`) is state of a session.  *)
(* A call is broken at its database writes: `stack` holds, per session,    *)
(* the statements still to run, innermost call first.  An exception        *)
(* unwinds the whole stack of the session.                                 *)
(*                                                                         *)
(* Text and boolean field values survive the JSON encoding of the sandbox  *)
(* column unchanged, so a staged value read back from the row equals the   *)
(* value that was staged; the entity type modelled here has no other       *)
(* monitored or stored field type.                                         *)
(***************************************************************************)
EXTENDS Integers, Sequences, FiniteSets, TLC

VARIABLES
    cfg,            \* attributes of the Sandbox class (set at class creation)
    dbE,            \* the entity row: <<>> or <<vals>>
    dbR,            \* the sandbox row: <<>> or <<record>>
    instance,       \* per session: the model instance in memory, <<>> or <<obj>>
    approval,       \* per session: the record object cached as instance.approval
    stack,          \* per session: statements still to run
    users,          \* per session: local `users` of the running listener
    call,           \* per session: arguments of the running approve / deny
    nops,           \* how many caller operations have started (the clock)
    op,             \* history: the operation in progress or last completed
    onCreateRuns,   \* history: how many times after_save's body was entered
    everApproved    \* history: approve() has run at least once

vars == <<cfg, dbE, dbR, instance, approval, stack, users, call, nops, op,
          onCreateRuns, everApproved>>

----------------------------------------------------------------------------
(* Bounds of the model *)

MaxAuthors == 2
MaxOps == 3
MaxDepth == 12
MaxSteps == 24

----------------------------------------------------------------------------
(* Users, field values *)

\* a writer, a second writer of the same entity, a moderator
Sessions == {"author", "author2", "mod"}

Users == {"alice", "bob", "carol"}

\* user.has_perm("<app>.moderate_<table>_approval")
has_perm(user) == user = "carol"

\* user.is_staff
is_staff(user) == user = "bob"

\* lists of distinct users, the shapes an integrator's _get_authors returns
AuthorLists ==
    {a \in UNION {[1..n -> Users] : n \in 0..MaxAuthors} :
        \A i, j \in DOMAIN a : a[i] = a[j] => i = j}

\* Concrete fields of Entry that the model keeps
EntityFields == {"description", "content", "is_visible"}

\* Order of Entry's fields, the order of ValidationError.message_dict
FieldOrder == <<"is_visible", "description", "content">>

EntityValues ==
    [description : {"", "Hello"}, content : {"World", ""},
     is_visible : BOOLEAN]

\* Model.clean_fields(): content is a TextField(blank=False), description
\* is blank=True; returns the keys of ValidationError.message_dict.
clean_fields(vals) == {f \in EntityFields : f = "content" /\ vals[f] = ""}

Pending == "Pending"
Approved == "Approved"
Rejected == "Rejected"

ApprovedInfo == "Congratulations, your edits have been approved."
RefusedInfo == "Your edits have been refused."
Reasons == {"", "policy violation"}

NoUser == "None"

\* dict restricted to some keys
Pick(vals, keys) == [k \in keys |-> vals[k]]

----------------------------------------------------------------------------
(* Configuration: class attributes of a Sandbox *)

\* scenario/content/models/entry.py: EntryApproval.  _get_authors is what
\* the integrator's method returns for the entity, [self.source.user] there.
EntryApproval ==
    [approval_fields |-> {"description", "content"},
     approval_store_fields |-> {"is_visible"},
     approval_default |-> [is_visible |-> FALSE, description |-> ""],
     auto_approve_staff |-> FALSE,
     auto_approve_new |-> FALSE,
     auto_approve_by_request |-> FALSE,
     _get_authors |-> <<"alice">>,
     auto_process_approval |-> "None"]

\* what an integrator's override of auto_process_approval does: nothing
\* (the method of the package), self.approve(authors[0], save=True) or
\* self.deny(authors[0], save=True)
Overrides == {"approve", "deny"}

\* The scenario's class for every owner list and with either auto_approve
\* switch set; the class that takes the author from the request; a class
\* that monitors content alone, with no store and no defaults; and the
\* scenario's class with an overridden auto_process_approval.
Configs ==
    {[EntryApproval EXCEPT !.auto_approve_staff = sw[1],
                           !.auto_approve_new = sw[2],
                           !._get_authors = a] :
        sw \in {<<FALSE, FALSE>>, <<TRUE, FALSE>>, <<FALSE, TRUE>>},
        a \in AuthorLists}
    \cup {[EntryApproval EXCEPT !.auto_approve_staff = TRUE,
                                !.auto_approve_by_request = TRUE]}
    \cup {[EntryApproval EXCEPT !.approval_fields = {"content"},
                                !.approval_store_fields = {},
                                !.approval_default = <<>>,
                                !._get_authors = a] : a \in AuthorLists}
    \cup {[EntryApproval EXCEPT !.auto_process_approval = h,
                                !._get_authors = a] :
            h \in Overrides, a \in {<<"alice">>, <<"carol">>}}

\* the classes two concurrent writers are run against: the scenario's
\* class as shipped, its owner with or without the moderation permission
ConcurrentConfigs ==
    {[EntryApproval EXCEPT !._get_authors = a] :
        a \in {<<"alice">>, <<"carol">>}}

\* a new row that is already out of draft
DynamicSandboxSubmitted ==
    [fields |-> <<>>, store |-> <<>>, approved |-> Pending,
     moderator |-> NoUser, draft |-> FALSE, approval_date |-> <<>>,
     info |-> ""]

\* A new row of the sandbox table (field defaults of DynamicSandbox)
DynamicSandbox ==
    [fields |-> <<>>, store |-> <<>>, approved |-> Pending,
     moderator |-> NoUser, draft |-> TRUE, approval_date |-> <<>>,
     info |-> ""]

----------------------------------------------------------------------------
(* Pure parts of DynamicSandbox *)

_get_fields_data(rec) == rec.fields

_get_store_fields_data(rec) == rec.store

_get_field_names == cfg.approval_fields

_get_store_field_names == cfg.approval_store_fields

\* _get_diff raises KeyError when the sandbox holds a key that is not a
\* monitored field name
_get_diff_raises(rec) == DOMAIN _get_fields_data(rec) \ _get_field_names # {}

\* the list of differing keys; the empty set stands for None
_get_diff(rec, inst) ==
    {key \in DOMAIN _get_fields_data(rec) :
        _get_fields_data(rec)[key] # inst.vals[key]}

\* a diff that always asks for a review
_needs_approval_always(rec, inst) == TRUE

_needs_approval(rec, inst) == _get_diff(rec, inst) # {}

_can_user_bypass_approval(user) == user # NoUser /\ has_perm(user)

\* a first rule that never looks at the diff
AutoApprovesNeverOptional(rec, inst, authors, update) ==
    \/ \E i \in DOMAIN authors : _can_user_bypass_approval(authors[i])
    \/ cfg.auto_approve_new /\ ~update

\* a first rule that looks at the diff for updates only
AutoApprovesOptionalOnUpdate(rec, inst, authors, update) ==
    \/ \E i \in DOMAIN authors : _can_user_bypass_approval(authors[i])
    \/ update /\ ~_needs_approval(rec, inst)
    \/ cfg.auto_approve_new /\ ~update

\* first `if` of _auto_process_approval
AutoApproves(rec, inst, authors, update) ==
    LET authorized == \E i \in DOMAIN authors :
                          _can_user_bypass_approval(authors[i])
        optional == ~_needs_approval(rec, inst)
    IN  authorized \/ optional \/ (cfg.auto_approve_new /\ ~update)

\* a staff rule that never applies
StaffNeverApproves(authors) == FALSE

\* second `if` of _auto_process_approval
StaffApproves(authors) ==
    cfg.auto_approve_staff /\ \E i \in DOMAIN authors : is_staff(authors[i])

\* the last author of the list
LastAuthor(authors) == authors[Len(authors)]

\* the user passed to approve() by _auto_process_approval
ApprovingUser(authors) == authors[1]

\* a staging that leaves the store slot as it was
StagedFieldsOnly(rec, inst) ==
    [rec EXCEPT !.fields = Pick(inst.vals, _get_field_names),
                !.approved = Pending]

\* a staging that leaves the status as it was
StagedKeepsStatus(rec, inst) ==
    [rec EXCEPT !.fields = Pick(inst.vals, _get_field_names),
                !.store = Pick(inst.vals, _get_store_field_names)]

\* a staging that marks the record Approved
StagedApproved(rec, inst) ==
    [rec EXCEPT !.fields = Pick(inst.vals, _get_field_names),
                !.store = Pick(inst.vals, _get_store_field_names),
                !.approved = Approved]

\* a staging that fills the store slot once and keeps it afterwards
StagedStoreOnce(rec, inst) ==
    [rec EXCEPT !.fields = Pick(inst.vals, _get_field_names),
                !.store = IF rec.store = <<>>
                          THEN Pick(inst.vals, _get_store_field_names)
                          ELSE rec.store,
                !.approved = Pending]

\* _update_sandbox: the record with both slots overwritten
Staged(rec, inst) ==
    [rec EXCEPT !.fields = Pick(inst.vals, _get_field_names),
                !.store = Pick(inst.vals, _get_store_field_names),
                !.approved = Pending]

\* a reload that keeps the values assigned in memory
refresh_from_db_kept(inst, row) == inst

\* a reload of the monitored and the stored fields alone
refresh_from_db_configured(inst, row) ==
    [inst EXCEPT !.vals =
        [f \in EntityFields |->
            IF f \in cfg.approval_fields \cup cfg.approval_store_fields
            THEN row[f] ELSE inst.vals[f]]]

\* Model.refresh_from_db(): every concrete field is reloaded; attributes
\* that are not fields (_ignore_approval, request) stay
refresh_from_db(inst, row) == [inst EXCEPT !.vals = row]

\* _update_source, default=False: the `original` dict after both loops
Original(rec, inst) ==
    [f \in DOMAIN rec.fields \cup DOMAIN rec.store |->
        IF f \in DOMAIN rec.store /\ f \in DOMAIN rec.fields
        THEN rec.fields[f] ELSE inst.vals[f]]

\* a merge that applies the monitored slot alone
AppliedFieldsOnly(rec, inst) ==
    [f \in EntityFields |->
        IF f \in DOMAIN rec.fields THEN rec.fields[f] ELSE inst.vals[f]]

\* a merge that flips the stored flags of the source instead of assigning
\* them
AppliedFlipping(rec, inst) ==
    [f \in EntityFields |->
        IF f \in DOMAIN rec.store THEN ~inst.vals[f]
        ELSE IF f \in DOMAIN rec.fields THEN rec.fields[f]
        ELSE inst.vals[f]]

\* _update_source, default=False: the source after both loops
Applied(rec, inst) ==
    [f \in EntityFields |->
        IF f \in DOMAIN rec.store THEN rec.store[f]
        ELSE IF f \in DOMAIN rec.fields THEN rec.fields[f]
        ELSE inst.vals[f]]

\* _update_source, default=True: the source after the loop
Defaulted(inst) ==
    [f \in EntityFields |->
        IF f \in DOMAIN cfg.approval_default THEN cfg.approval_default[f]
        ELSE inst.vals[f]]

\* position of a field in message_dict
Pos(f) == CHOOSE i \in DOMAIN FieldOrder : FieldOrder[i] = f

\* the except branch of _update_source: keys are restored in order until
\* one is missing from `original` (KeyError)
Restored(vals, original, errs) ==
    LET missing == errs \ DOMAIN original
        stop == IF missing = {} THEN Len(FieldOrder) + 1
                ELSE CHOOSE i \in DOMAIN FieldOrder :
                        /\ FieldOrder[i] \in missing
                        /\ \A j \in DOMAIN FieldOrder :
                              FieldOrder[j] \in missing => i <= j
    IN  [f \in EntityFields |->
            IF f \in errs /\ Pos(f) < stop THEN original[f] ELSE vals[f]]

----------------------------------------------------------------------------
(* Sessions and the statement stack *)

Idle == \A s \in Sessions : stack[s] = <<>>

Top(s) == IF stack[s] = <<>> THEN "idle" ELSE Head(stack[s])

\* statements of before_save (listeners/monitored.py 30-33)
BeforeSaveBody ==
    <<"_get_authors", "_update_sandbox", "_revert",
      "_auto_process_approval(update=True)">>

\* statements of after_save (listeners/monitored.py 53-56)
AfterSaveBody ==
    <<"_get_authors", "_update_sandbox", "_update_source(default=True)",
      "_auto_process_approval(update=False)">>

\* an approve that announces its result before the record is saved
ApproveBodyPostFirst ==
    <<"pre_approval", "approve", "_update_source", "post_approval",
      "approve_save">>

\* statements of approve (models/monitoring.py 367-378)
ApproveBody ==
    <<"pre_approval", "approve", "_update_source", "approve_save",
      "post_approval">>

\* statements of deny (models/monitoring.py 394-403)
DenyBody == <<"pre_approval", "deny", "post_approval">>

\* arguments of approve / deny, the value _update_source returned to
\* approve, and the value the call returned to its caller
NoCall ==
    [user |-> NoUser, save |-> FALSE, reason |-> "", valid |-> TRUE,
     returned |-> "None", diff |-> {}]

NoOp ==
    [kind |-> "none", pre |-> <<>>, preR |-> <<>>, input |-> <<>>,
     bypass |-> FALSE, stagings |-> 0, approves |-> 0, denies |-> 0,
     steps |-> 0, callbacks |-> <<>>, events |-> <<>>, rejected |-> {},
     again |-> FALSE, err |-> ""]

StartOp(kind, inst) ==
    [kind |-> kind, pre |-> dbE, preR |-> dbR, input |-> <<inst.vals>>,
     bypass |-> inst._ignore_approval, stagings |-> 0, approves |-> 0,
     denies |-> 0, steps |-> 0, callbacks |-> <<>>, events |-> <<>>,
     rejected |-> {},
     again |-> kind = "approve" /\ op.kind = "approve" /\ op.err = "",
     err |-> ""]

Init ==
    /\ cfg \in Configs
    /\ dbE = <<>>
    /\ dbR = <<>>
    /\ instance = [s \in Sessions |-> <<>>]
    /\ approval = [s \in Sessions |-> <<>>]
    /\ stack = [s \in Sessions |-> <<>>]
    /\ users = [s \in Sessions |-> <<>>]
    /\ call = [s \in Sessions |-> NoCall]
    /\ nops = 0
    /\ op = NoOp
    /\ onCreateRuns = 0
    /\ everApproved = FALSE

\* the guard shared by both listeners (listeners/monitored.py 27 and 50);
\* every instance here is a MonitoredModel
Listens(inst) == ~inst._ignore_approval

\* Model.save(): the pre_save signal runs before_save's body for a listened
\* instance that has a pk; then the row is written
SaveBody(inst) ==
    IF Listens(inst) /\ inst.pk THEN BeforeSaveBody \o <<"save_table">>
    ELSE <<"save_table">>

----------------------------------------------------------------------------
(* What callers do.  Each is one call of the API with its arguments. *)

\* a caller may start an operation
Ready == Idle /\ nops < MaxOps

\* Entry.objects.get(pk=...): a new object, no attribute beside the fields
Fetched == [pk |-> TRUE, vals |-> dbE[1], _ignore_approval |-> FALSE,
            request |-> "absent"]

\* Entry(**vals).save() on a new instance; a view may attach its request
Create(s, vals, req) ==
    /\ Ready /\ s = "author"
    /\ dbE = <<>> /\ instance[s] = <<>>
    /\ LET inst == [pk |-> FALSE, vals |-> vals, _ignore_approval |-> FALSE,
                    request |-> req]
       IN  /\ instance' = [instance EXCEPT ![s] = <<inst>>]
           /\ op' = StartOp("create", inst)
           /\ stack' = [stack EXCEPT ![s] = SaveBody(inst)]
    /\ users' = [users EXCEPT ![s] = <<>>]
    /\ nops' = nops + 1
    /\ UNCHANGED <<cfg, dbE, dbR, approval, call, onCreateRuns, everApproved>>

\* e = Entry.objects.get(pk=...); e.<fields> = vals; e.save()
Update(s, vals, req) ==
    /\ Ready /\ s = "author"
    /\ dbE # <<>>
    /\ LET inst == [Fetched EXCEPT !.vals = vals, !.request = req]
       IN  /\ instance' = [instance EXCEPT ![s] = <<inst>>]
           /\ op' = StartOp("update", inst)
           /\ stack' = [stack EXCEPT ![s] = SaveBody(inst)]
    /\ approval' = [approval EXCEPT ![s] = <<>>]
    /\ users' = [users EXCEPT ![s] = <<>>]
    /\ nops' = nops + 1
    /\ UNCHANGED <<cfg, dbE, dbR, call, onCreateRuns, everApproved>>

\* e = Entry.objects.get(pk=...); e.<fields> = vals; e.save() in a worker of
\* its own: the first writer starts once the creation has returned, the
\* second one at any time after the first has started.  No statement of
\* the listeners takes a lock (listeners/monitored.py 14-56).
ConcurrentUpdate(s, vals) ==
    /\ nops < MaxOps /\ dbE # <<>> /\ op.err = ""
    /\ \/ s = "author" /\ Idle /\ op.kind = "create"
       \/ s = "author2" /\ op.kind = "update" /\ instance[s] = <<>>
    /\ LET inst == [Fetched EXCEPT !.vals = vals]
       IN  /\ instance' = [instance EXCEPT ![s] = <<inst>>]
           /\ op' = IF s = "author" THEN StartOp("update", inst)
                    ELSE [op EXCEPT !.input = @ \o <<vals>>]
           /\ stack' = [stack EXCEPT ![s] = SaveBody(inst)]
    /\ approval' = [approval EXCEPT ![s] = <<>>]
    /\ users' = [users EXCEPT ![s] = <<>>]
    /\ nops' = nops + 1
    /\ UNCHANGED <<cfg, dbE, dbR, call, onCreateRuns, everApproved>>

\* e.<fields> = vals; e.save() on the instance kept from the last operation
Resave(s, vals) ==
    /\ Ready /\ s = "author"
    /\ instance[s] # <<>> /\ instance[s][1].pk
    /\ LET inst == [instance[s][1] EXCEPT !.vals = vals]
       IN  /\ instance' = [instance EXCEPT ![s] = <<inst>>]
           /\ op' = StartOp("update", inst)
           /\ stack' = [stack EXCEPT ![s] = SaveBody(inst)]
    /\ users' = [users EXCEPT ![s] = <<>>]
    /\ nops' = nops + 1
    /\ UNCHANGED <<cfg, dbE, dbR, approval, call, onCreateRuns, everApproved>>

\* the record and its source as a moderator's request loads them
ModeratorLoads(s) ==
    /\ Ready /\ s = "mod"
    /\ dbE # <<>> /\ dbR # <<>>
    /\ instance' = [instance EXCEPT ![s] = <<Fetched>>]
    /\ approval' = [approval EXCEPT ![s] = dbR]
    /\ users' = [users EXCEPT ![s] = <<>>]
    /\ nops' = nops + 1

\* SandboxAdmin.do_approve (save=True), or approve() called from code
do_approve(s, user, save) ==
    /\ ModeratorLoads(s)
    /\ op' = StartOp("approve", Fetched)
    /\ call' = [call EXCEPT ![s] = [NoCall EXCEPT !.user = user, !.save = save]]
    /\ stack' = [stack EXCEPT ![s] = ApproveBody \o <<"end_request">>]
    /\ UNCHANGED <<cfg, dbE, dbR, onCreateRuns, everApproved>>

\* SandboxAdmin.do_deny (save=True), or deny() called from code
do_deny(s, user, reason, save) ==
    /\ ModeratorLoads(s)
    /\ op' = StartOp("deny", Fetched)
    /\ call' = [call EXCEPT ![s] =
            [NoCall EXCEPT !.user = user, !.save = save, !.reason = reason]]
    /\ stack' = [stack EXCEPT ![s] = DenyBody \o <<"end_request">>]
    /\ UNCHANGED <<cfg, dbE, dbR, onCreateRuns, everApproved>>

\* entry.approval.submit_approval(), called by the integrator's code
do_submit(s) ==
    /\ ModeratorLoads(s)
    /\ op' = StartOp("submit", Fetched)
    /\ call' = [call EXCEPT ![s] = NoCall]
    /\ stack' = [stack EXCEPT ![s] = <<"submit_approval", "end_request">>]
    /\ UNCHANGED <<cfg, dbE, dbR, onCreateRuns, everApproved>>

----------------------------------------------------------------------------
(* Statements.  Each action runs the statement on top of a session's stack *)

\* an exception leaves every frame up to the caller (for a moderator's
\* request: up to the end of the request)
Unwound(s) == IF s = "mod" THEN <<"end_request">> ELSE <<>>

\* history: one more statement of the operation has run
Ticked == [op EXCEPT !.steps = @ + 1]

Raise(s, exc) ==
    /\ stack' = [stack EXCEPT ![s] = Unwound(s)]
    /\ op' = [Ticked EXCEPT !.err = exc]

\* an instance left as it is
NotIgnoring(inst) == inst

\* `self.source._ignore_approval = True` (models/monitoring.py 166, 182)
Ignoring(inst) == [inst EXCEPT !._ignore_approval = TRUE]

\* what _get_authors of the instance returns: the request's user when the
\* class asks for it, else the integrator's Sandbox._get_authors()
AuthorsFor(inst) ==
    IF cfg.auto_approve_by_request /\ inst.request \in Users
    THEN <<inst.request>> ELSE cfg._get_authors

\* the INSERT or UPDATE of the entity row, then the post_save signal:
\* after_save's body runs for a listened instance that was inserted
save_table(s) ==
    /\ Top(s) = "save_table"
    /\ LET inst == instance[s][1]
           runs == Listens(inst) /\ ~inst.pk
       IN  /\ dbE' = <<inst.vals>>
           /\ instance' = [instance EXCEPT ![s] = <<[inst EXCEPT !.pk = TRUE]>>]
           /\ stack' = [stack EXCEPT ![s] =
                IF runs THEN AfterSaveBody \o Tail(stack[s])
                ELSE Tail(stack[s])]
           /\ onCreateRuns' = IF runs THEN onCreateRuns + 1 ELSE onCreateRuns
    /\ op' = Ticked
    /\ UNCHANGED <<nops, cfg, dbR, approval, users, call, everApproved>>

\* MonitoredModel._get_authors.  Reading self.approval gets the row or
\* creates it (AutoOneToOneField) and caches the object on the instance.
_get_authors(s) ==
    /\ Top(s) = "_get_authors"
    /\ LET inst == instance[s][1]
       IN  /\ approval' = [approval EXCEPT ![s] =
                IF approval[s] # <<>> THEN approval[s]
                ELSE IF dbR # <<>> THEN dbR ELSE <<DynamicSandbox>>]
           /\ dbR' = IF dbR = <<>> THEN <<DynamicSandbox>> ELSE dbR
           /\ IF cfg.auto_approve_by_request /\ inst.request = "absent"
              THEN /\ Raise(s, "AttributeError")
                   /\ UNCHANGED users
              ELSE /\ users' = [users EXCEPT ![s] = AuthorsFor(inst)]
                   /\ stack' = [stack EXCEPT ![s] = Tail(stack[s])]
                   /\ op' = Ticked
    /\ UNCHANGED <<nops, cfg, dbE, instance, call, onCreateRuns, everApproved>>

\* DynamicSandbox._update_sandbox, with its self.save()
_update_sandbox(s) ==
    /\ Top(s) = "_update_sandbox"
    /\ LET new == Staged(approval[s][1], instance[s][1])
       IN  /\ approval' = [approval EXCEPT ![s] = <<new>>]
           /\ dbR' = <<new>>
    /\ op' = [Ticked EXCEPT !.stagings = @ + 1]
    /\ stack' = [stack EXCEPT ![s] = Tail(stack[s])]
    /\ UNCHANGED <<nops, cfg, dbE, instance, users, call, onCreateRuns,
                   everApproved>>

\* MonitoredModel._revert: refresh_from_db also drops the cached relations
_revert(s) ==
    /\ Top(s) = "_revert"
    /\ IF dbE = <<>>
       THEN UNCHANGED <<instance, approval>>
       ELSE /\ instance' = [instance EXCEPT ![s] =
                    <<refresh_from_db(instance[s][1], dbE[1])>>]
            /\ approval' = [approval EXCEPT ![s] = <<>>]
    /\ stack' = [stack EXCEPT ![s] = Tail(stack[s])]
    /\ op' = Ticked
    /\ UNCHANGED <<nops, cfg, dbE, dbR, users, call, onCreateRuns,
                   everApproved>>

\* a policy that ends after the staff rule
AfterFirstRuleNoCallback == <<"_auto_process_approval:323">>

\* statements of _auto_process_approval after its first `if` (323-325)
AfterFirstRule == <<"_auto_process_approval:323", "auto_process_approval">>

\* DynamicSandbox._auto_process_approval, lines 318-322: instance.approval
\* is read again (from the row after a _revert)
_auto_process_approval(s) ==
    /\ Top(s) \in {"_auto_process_approval(update=True)",
                   "_auto_process_approval(update=False)"}
    /\ LET update == Top(s) = "_auto_process_approval(update=True)"
           rec == IF approval[s] # <<>> THEN approval[s][1] ELSE dbR[1]
           inst == instance[s][1]
           rest == AfterFirstRule \o Tail(stack[s])
       IN  /\ approval' = [approval EXCEPT ![s] = <<rec>>]
           /\ IF _get_diff_raises(rec)
              THEN Raise(s, "KeyError") /\ UNCHANGED call
              ELSE IF AutoApproves(rec, inst, users[s], update)
              THEN IF users[s] = <<>>
                   THEN Raise(s, "IndexError") /\ UNCHANGED call
                   ELSE /\ call' = [call EXCEPT ![s] =
                                [NoCall EXCEPT !.user = ApprovingUser(users[s]),
                                               !.save = TRUE]]
                        /\ stack' = [stack EXCEPT ![s] = ApproveBody \o rest]
                        /\ op' = Ticked
              ELSE /\ stack' = [stack EXCEPT ![s] = rest]
                   /\ op' = Ticked /\ UNCHANGED call
    /\ UNCHANGED <<nops, cfg, dbE, dbR, instance, users, onCreateRuns, everApproved>>

\* DynamicSandbox._auto_process_approval, lines 323-324
_auto_process_staff(s) ==
    /\ Top(s) = "_auto_process_approval:323"
    /\ IF StaffApproves(users[s])
       THEN /\ call' = [call EXCEPT ![s] =
                    [NoCall EXCEPT !.user = ApprovingUser(users[s]),
                                   !.save = TRUE]]
            /\ stack' = [stack EXCEPT ![s] = ApproveBody \o Tail(stack[s])]
       ELSE /\ stack' = [stack EXCEPT ![s] = Tail(stack[s])]
            /\ UNCHANGED call
    /\ op' = Ticked
    /\ UNCHANGED <<nops, cfg, dbE, dbR, instance, approval, users, onCreateRuns,
                   everApproved>>

\* DynamicSandbox.auto_process_approval(authors=authors), line 325: the
\* method of the package returns None, an override approves or denies
auto_process_approval(s) ==
    /\ Top(s) = "auto_process_approval"
    /\ op' = [Ticked EXCEPT !.callbacks = Append(@, users[s])]
    /\ IF cfg.auto_process_approval = "None"
       THEN /\ stack' = [stack EXCEPT ![s] = Tail(stack[s])]
            /\ UNCHANGED call
       ELSE /\ call' = [call EXCEPT ![s] =
                    [NoCall EXCEPT !.user = ApprovingUser(users[s]),
                                   !.save = TRUE]]
            /\ stack' = [stack EXCEPT ![s] =
                    (IF cfg.auto_process_approval = "approve"
                     THEN ApproveBody ELSE DenyBody) \o Tail(stack[s])]
    /\ UNCHANGED <<nops, cfg, dbE, dbR, instance, approval, users,
                   onCreateRuns, everApproved>>

\* pre_approval.send(..., status=self.approved), lines 367 and 394
pre_approval(s) ==
    /\ Top(s) = "pre_approval"
    /\ op' = [Ticked EXCEPT !.events = Append(@,
                [name |-> "pre_approval", status |-> approval[s][1].approved,
                 instance |-> approval[s], entity |-> dbE, record |-> dbR])]
    /\ stack' = [stack EXCEPT ![s] = Tail(stack[s])]
    /\ UNCHANGED <<nops, cfg, dbE, dbR, instance, approval, users, call,
                   onCreateRuns, everApproved>>

\* post_approval.send(..., status=self.approved), lines 378 and 403; the
\* call then returns None
post_approval(s) ==
    /\ Top(s) = "post_approval"
    /\ op' = [Ticked EXCEPT !.events = Append(@,
                [name |-> "post_approval", status |-> approval[s][1].approved,
                 instance |-> approval[s], entity |-> dbE, record |-> dbR])]
    /\ call' = [call EXCEPT ![s].returned = "None"]
    /\ stack' = [stack EXCEPT ![s] = Tail(stack[s])]
    /\ UNCHANGED <<nops, cfg, dbE, dbR, instance, approval, users,
                   onCreateRuns, everApproved>>

\* timezone.now(): the clock ticks once per caller operation
now == nops

\* an approval that leaves the draft mark and the date as they were
ApprovingStatusOnly(rec, user) ==
    [rec EXCEPT !.approved = Approved, !.moderator = user,
                !.info = ApprovedInfo]

\* the assignments of approve, lines 368-374
Approving(rec, user) ==
    [rec EXCEPT !.approval_date = <<now>>,
                !.approved = Approved,
                !.moderator = user,
                !.draft = FALSE,
                !.info = ApprovedInfo]

\* DynamicSandbox.approve, lines 368-374
approve(s) ==
    /\ Top(s) = "approve"
    /\ approval' = [approval EXCEPT ![s] =
              <<Approving(approval[s][1], call[s].user)>>]
    /\ everApproved' = TRUE
    /\ op' = [Ticked EXCEPT !.approves = @ + 1]
    /\ stack' = [stack EXCEPT ![s] = Tail(stack[s])]
    /\ UNCHANGED <<nops, cfg, dbE, dbR, instance, users, call, onCreateRuns>>

\* DynamicSandbox._update_source with save=True, up to its self.source.save()
_update_source(s) ==
    /\ Top(s) \in {"_update_source", "_update_source(default=True)"}
    /\ LET default == Top(s) = "_update_source(default=True)"
           inst == instance[s][1]
           rec == approval[s][1]
           original == IF default THEN <<>> ELSE Original(rec, inst)
           set == IF default THEN Defaulted(inst) ELSE Applied(rec, inst)
           errs == clean_fields(set)
           vals == Restored(set, original, errs)
           seen == [Ticked EXCEPT !.rejected = @ \cup errs]
       IN  IF errs \ DOMAIN original # {}
           THEN /\ instance' = [instance EXCEPT ![s] =
                        <<[inst EXCEPT !.vals = vals]>>]
                /\ stack' = [stack EXCEPT ![s] = Unwound(s)]
                /\ op' = [seen EXCEPT !.err = "KeyError"]
                /\ UNCHANGED call
           ELSE IF Len(stack[s]) + Len(SaveBody(Ignoring(inst))) > MaxDepth
           THEN /\ instance' = [instance EXCEPT ![s] =
                        <<Ignoring([inst EXCEPT !.vals = vals])>>]
                /\ stack' = [stack EXCEPT ![s] = Unwound(s)]
                /\ op' = [seen EXCEPT !.err = "RecursionError"]
                /\ UNCHANGED call
           ELSE /\ instance' = [instance EXCEPT ![s] =
                        <<Ignoring([inst EXCEPT !.vals = vals])>>]
                /\ stack' = [stack EXCEPT ![s] =
                        SaveBody(Ignoring(inst)) \o Tail(stack[s])]
                /\ op' = seen
                /\ call' = [call EXCEPT ![s].valid = errs = {}]
    /\ UNCHANGED <<nops, cfg, dbE, dbR, approval, users, onCreateRuns,
                   everApproved>>

\* DynamicSandbox.approve, lines 376-378
approve_save(s) ==
    /\ Top(s) = "approve_save"
    /\ dbR' = IF call[s].save THEN approval[s] ELSE dbR
    /\ stack' = [stack EXCEPT ![s] = Tail(stack[s])]
    /\ op' = Ticked
    /\ UNCHANGED <<nops, cfg, dbE, instance, approval, users, call, onCreateRuns,
                   everApproved>>

\* a submission that also marks the record Approved
SubmittedApproved(rec) == [rec EXCEPT !.draft = FALSE, !.approved = Approved]

\* the assignment of submit_approval, line 344
Submitted(rec) == [rec EXCEPT !.draft = FALSE]

\* DynamicSandbox.submit_approval, lines 343-350
submit_approval(s) ==
    /\ Top(s) = "submit_approval"
    /\ IF approval[s][1].draft
       THEN /\ approval' = [approval EXCEPT ![s] =
                    <<Submitted(approval[s][1])>>]
            /\ dbR' = approval'[s]
            /\ call' = [call EXCEPT ![s].returned = "True"]
       ELSE /\ call' = [call EXCEPT ![s].returned = "False"]
            /\ UNCHANGED <<approval, dbR>>
    /\ stack' = [stack EXCEPT ![s] = Tail(stack[s])]
    /\ op' = Ticked
    /\ UNCHANGED <<nops, cfg, dbE, instance, users, onCreateRuns, everApproved>>

\* a refusal that keeps no reason
DenyingDefaultReason(rec, user, reason) ==
    [rec EXCEPT !.moderator = user, !.approved = Rejected, !.draft = FALSE,
                !.info = RefusedInfo]

\* a refusal that leaves the draft mark as it was
DenyingKeepsDraft(rec, user, reason) ==
    [rec EXCEPT !.moderator = user, !.approved = Rejected,
                !.info = IF reason = "" THEN RefusedInfo ELSE reason]

\* the assignments of deny, lines 395-400
Denying(rec, user, reason) ==
    [rec EXCEPT !.moderator = user,
                !.approved = Rejected,
                !.draft = FALSE,
                !.info = IF reason = "" THEN RefusedInfo ELSE reason]

\* DynamicSandbox.deny, lines 395-402
deny(s) ==
    /\ Top(s) = "deny"
    /\ LET new == Denying(approval[s][1], call[s].user, call[s].reason)
       IN  /\ approval' = [approval EXCEPT ![s] = <<new>>]
           /\ dbR' = IF call[s].save THEN <<new>> ELSE dbR
    /\ stack' = [stack EXCEPT ![s] = Tail(stack[s])]
    /\ op' = [Ticked EXCEPT !.denies = @ + 1]
    /\ UNCHANGED <<nops, cfg, dbE, instance, users, call, onCreateRuns,
                   everApproved>>

\* the moderator's request ends: its objects are garbage
end_request(s) ==
    /\ Top(s) = "end_request"
    /\ instance' = [instance EXCEPT ![s] = <<>>]
    /\ approval' = [approval EXCEPT ![s] = <<>>]
    /\ call' = [call EXCEPT ![s] = NoCall]
    /\ stack' = [stack EXCEPT ![s] = Tail(stack[s])]
    /\ op' = Ticked
    /\ UNCHANGED <<nops, cfg, dbE, dbR, users, onCreateRuns, everApproved>>

----------------------------------------------------------------------------

\* what a view leaves on the instance: no `request` attribute, a request
\* that has no `user` attribute, or the request of a user
Requests == IF cfg.auto_approve_by_request
            THEN {"absent", "nouser"} \cup Users
            ELSE {"absent"}

Step(s) ==
    \/ save_table(s)
    \/ _get_authors(s)
    \/ _update_sandbox(s)
    \/ _revert(s)
    \/ _auto_process_approval(s)
    \/ _auto_process_staff(s)
    \/ auto_process_approval(s)
    \/ pre_approval(s)
    \/ post_approval(s)
    \/ approve(s)
    \/ _update_source(s)
    \/ approve_save(s)
    \/ deny(s)
    \/ submit_approval(s)
    \/ end_request(s)

Moderators == {"carol"}

Next ==
    \/ \E vals \in EntityValues, req \in Requests : Create("author", vals, req)
    \/ \E vals \in EntityValues, req \in Requests : Update("author", vals, req)
    \/ \E vals \in EntityValues : Resave("author", vals)
    \/ \E u \in Moderators, save \in BOOLEAN : do_approve("mod", u, save)
    \/ \E u \in Moderators, r \in Reasons, save \in BOOLEAN :
          do_deny("mod", u, r, save)
    \/ do_submit("mod")
    \/ \E s \in Sessions : Step(s)

Spec == Init /\ [][Next]_vars

\* the statements a save() of a writer runs
WriteStep(s) ==
    \/ save_table(s)
    \/ _get_authors(s)
    \/ _update_sandbox(s)
    \/ _revert(s)
    \/ _auto_process_approval(s)
    \/ _auto_process_staff(s)
    \/ auto_process_approval(s)
    \/ pre_approval(s)
    \/ post_approval(s)
    \/ approve(s)
    \/ _update_source(s)
    \/ approve_save(s)

InitConcurrent == Init /\ cfg \in ConcurrentConfigs

\* an entity is created, then two writers update it, their statements
\* interleaved in every order
NextConcurrent ==
    \/ \E vals \in EntityValues : Create("author", vals, "absent")
    \/ \E s \in {"author", "author2"}, vals \in EntityValues :
          ConcurrentUpdate(s, vals)
    \/ \E s \in {"author", "author2"} : WriteStep(s)

SpecConcurrent == InitConcurrent /\ [][NextConcurrent]_vars

----------------------------------------------------------------------------
(* A deployment that changes the class attributes of the sandbox *)

\* the classes a deployment may replace the running one with: one name
\* taken out of approval_fields, or one out of approval_store_fields
Deployments(c) ==
    {[c EXCEPT !.approval_fields = @ \ {f}] : f \in c.approval_fields}
    \cup {[c EXCEPT !.approval_store_fields = @ \ {f}] :
              f \in c.approval_store_fields}

\* The workers restart with new class attributes (entry.py 38-40); the
\* rows of both tables stay as they are, objects in memory are gone.
Migrate ==
    /\ Idle /\ dbR # <<>>
    /\ cfg.approval_fields = EntryApproval.approval_fields
    /\ cfg.approval_store_fields = EntryApproval.approval_store_fields
    /\ cfg' \in Deployments(cfg)
    /\ instance' = [s \in Sessions |-> <<>>]
    /\ approval' = [s \in Sessions |-> <<>>]
    /\ op' = [NoOp EXCEPT !.kind = "migrate", !.pre = dbE, !.preR = dbR]
    /\ UNCHANGED <<dbE, dbR, stack, users, call, nops, onCreateRuns,
                   everApproved>>

\* entry.approval._get_diff(), called on a record loaded from its row
do_diff(s) ==
    /\ ModeratorLoads(s)
    /\ op' = StartOp("diff", Fetched)
    /\ call' = [call EXCEPT ![s] = NoCall]
    /\ stack' = [stack EXCEPT ![s] = <<"_get_diff", "end_request">>]
    /\ UNCHANGED <<cfg, dbE, dbR, onCreateRuns, everApproved>>

\* DynamicSandbox._get_diff, lines 283-287: source_data has the names of
\* approval_fields, and is indexed by every key of the sandbox
get_diff(s) ==
    /\ Top(s) = "_get_diff"
    /\ IF _get_diff_raises(approval[s][1])
       THEN Raise(s, "KeyError") /\ UNCHANGED call
       ELSE /\ call' = [call EXCEPT ![s].diff =
                    _get_diff(approval[s][1], instance[s][1])]
            /\ stack' = [stack EXCEPT ![s] = Tail(stack[s])]
            /\ op' = Ticked
    /\ UNCHANGED <<nops, cfg, dbE, dbR, instance, approval, users,
                   onCreateRuns, everApproved>>

InitMigration == Init /\ cfg \in ConcurrentConfigs

\* an entity is created, edited and moderated while a deployment takes a
\* name out of the monitored or the stored fields
NextMigration ==
    \/ \E vals \in EntityValues : Create("author", vals, "absent")
    \/ \E vals \in EntityValues : Update("author", vals, "absent")
    \/ \E u \in Moderators, save \in BOOLEAN : do_approve("mod", u, save)
    \/ do_diff("mod")
    \/ Migrate
    \/ \E s \in {"author", "mod"} : WriteStep(s)
    \/ get_diff("mod")
    \/ end_request("mod")

SpecMigration == InitMigration /\ [][NextMigration]_vars

----------------------------------------------------------------------------
(* Deletions *)

\* the owner of the entity, Entry.user, the one author EntryApproval names
Owner == cfg._get_authors[1]

\* Entry.objects.get(pk=...).delete(): the collector deletes the rows that
\* reference the entity with on_delete=CASCADE, the sandbox row by its
\* `source` field, then the entity row, in one transaction
Delete(s) ==
    /\ Ready /\ s = "author"
    /\ dbE # <<>>
    /\ dbE' = <<>>
    /\ dbR' = <<>>
    /\ instance' = [instance EXCEPT ![s] = <<>>]
    /\ approval' = [approval EXCEPT ![s] = <<>>]
    /\ users' = [users EXCEPT ![s] = <<>>]
    /\ op' = StartOp("delete", Fetched)
    /\ nops' = nops + 1
    /\ UNCHANGED <<cfg, stack, call, onCreateRuns, everApproved>>

\* User.objects.get(...).delete() of an account that owns no entity: the
\* collector deletes the sandbox rows whose `moderator` is the account
\* (on_delete=CASCADE, monitoring.py 89).  No operation of the run follows.
DeleteUser(u) ==
    /\ Ready /\ u # Owner
    /\ dbR # <<>>
    /\ dbR' = IF dbR[1].moderator = u THEN <<>> ELSE dbR
    /\ op' = [NoOp EXCEPT !.kind = "delete_user", !.pre = dbE, !.preR = dbR]
    /\ nops' = MaxOps
    /\ UNCHANGED <<cfg, dbE, instance, approval, stack, users, call,
                   onCreateRuns, everApproved>>

\* e = Entry(**vals); e._ignore_approval = True; e.save(): neither
\* listener runs its body (listeners/monitored.py 27, 50)
CreateIgnored(s, vals) ==
    /\ Ready /\ s = "author"
    /\ dbE = <<>> /\ instance[s] = <<>>
    /\ LET inst == [pk |-> FALSE, vals |-> vals, _ignore_approval |-> TRUE,
                    request |-> "absent"]
       IN  /\ instance' = [instance EXCEPT ![s] = <<inst>>]
           /\ op' = StartOp("create", inst)
           /\ stack' = [stack EXCEPT ![s] = SaveBody(inst)]
    /\ users' = [users EXCEPT ![s] = <<>>]
    /\ nops' = nops + 1
    /\ UNCHANGED <<cfg, dbE, dbR, approval, call, onCreateRuns, everApproved>>

\* an entity is created, edited, moderated and deleted; the moderator's
\* account may be deleted at the end
NextLifecycle ==
    \/ \E vals \in EntityValues : Create("author", vals, "absent")
    \/ \E vals \in EntityValues : CreateIgnored("author", vals)
    \/ \E vals \in EntityValues : Update("author", vals, "absent")
    \/ \E u \in Moderators, save \in BOOLEAN : do_approve("mod", u, save)
    \/ \E u \in Moderators, r \in Reasons, save \in BOOLEAN :
          do_deny("mod", u, r, save)
    \/ Delete("author")
    \/ \E u \in Moderators : DeleteUser(u)
    \/ \E s \in {"author", "mod"} : WriteStep(s)
    \/ deny("mod")
    \/ end_request("mod")

SpecLifecycle == InitMigration /\ [][NextLifecycle]_vars

----------------------------------------------------------------------------
(* A moderator's approve next to a writer *)

\* SandboxAdmin.do_approve in a worker of its own, started at any time
\* after the writer has started: the record and its source are loaded from
\* their rows, then approve(user, save=True) runs.  The entity as loaded is
\* appended to the history of inputs.
ConcurrentApprove(s, user) ==
    /\ s = "mod" /\ nops < MaxOps
    /\ op.kind = "update" /\ op.err = "" /\ Len(op.input) = 1
    /\ dbE # <<>> /\ dbR # <<>>
    /\ instance' = [instance EXCEPT ![s] = <<Fetched>>]
    /\ approval' = [approval EXCEPT ![s] = dbR]
    /\ users' = [users EXCEPT ![s] = <<>>]
    /\ call' = [call EXCEPT ![s] = [NoCall EXCEPT !.user = user, !.save = TRUE]]
    /\ stack' = [stack EXCEPT ![s] = ApproveBody \o <<"end_request">>]
    /\ op' = [op EXCEPT !.input = @ \o <<dbE[1]>>]
    /\ nops' = nops + 1
    /\ UNCHANGED <<cfg, dbE, dbR, onCreateRuns, everApproved>>

\* an entity is created, then a writer updates it while a moderator
\* approves its record, their statements interleaved in every order
NextModeration ==
    \/ \E vals \in EntityValues : Create("author", vals, "absent")
    \/ \E vals \in EntityValues : ConcurrentUpdate("author", vals)
    \/ \E u \in Moderators : ConcurrentApprove("mod", u)
    \/ \E s \in {"author", "mod"} : WriteStep(s)
    \/ end_request("mod")

SpecModeration == InitConcurrent /\ [][NextModeration]_vars

----------------------------------------------------------------------------
(* A class that lists a field both as monitored and as stored *)

\* the scenario's class with `content` added to approval_store_fields,
\* its owner with or without the moderation permission
OverlapConfigs ==
    {[EntryApproval EXCEPT !.approval_store_fields = {"is_visible", "content"},
                           !._get_authors = a] :
        a \in {<<"alice">>, <<"carol">>}}

InitOverlap ==
    /\ cfg \in OverlapConfigs
    /\ dbE = <<>>
    /\ dbR = <<>>
    /\ instance = [s \in Sessions |-> <<>>]
    /\ approval = [s \in Sessions |-> <<>>]
    /\ stack = [s \in Sessions |-> <<>>]
    /\ users = [s \in Sessions |-> <<>>]
    /\ call = [s \in Sessions |-> NoCall]
    /\ nops = 0
    /\ op = NoOp
    /\ onCreateRuns = 0
    /\ everApproved = FALSE

SpecOverlap == InitOverlap /\ [][Next]_vars

----------------------------------------------------------------------------
(* An instance kept in memory across a moderator's decision *)

\* the inputs of the creation the runs start after
CreatedInputs ==
    {v \in EntityValues : v.description = "Hello" /\ v.content = "World"}

\* The state a creation by alice with one of CreatedInputs has left, the
\* class being the scenario's: the entity row reset to approval_default,
\* the record staged, in draft and unset; no object is left in memory.
InitKept ==
    /\ cfg = EntryApproval
    /\ \E v \in CreatedInputs :
          /\ dbE = <<[v EXCEPT !.is_visible = FALSE, !.description = ""]>>
          /\ dbR = <<[DynamicSandbox EXCEPT
                        !.fields = [description |-> v.description,
                                    content |-> v.content],
                        !.store = [is_visible |-> v.is_visible]]>>
    /\ instance = [s \in Sessions |-> <<>>]
    /\ approval = [s \in Sessions |-> <<>>]
    /\ stack = [s \in Sessions |-> <<>>]
    /\ users = [s \in Sessions |-> <<>>]
    /\ call = [s \in Sessions |-> NoCall]
    /\ nops = 0
    /\ op = NoOp
    /\ onCreateRuns = 1
    /\ everApproved = FALSE

\* the operations on an entity that exists
NextKept ==
    \/ \E vals \in EntityValues : Update("author", vals, "absent")
    \/ \E vals \in EntityValues : Resave("author", vals)
    \/ \E u \in Moderators, save \in BOOLEAN : do_approve("mod", u, save)
    \/ \E u \in Moderators, r \in Reasons, save \in BOOLEAN :
          do_deny("mod", u, r, save)
    \/ do_submit("mod")
    \/ \E s \in Sessions : Step(s)

SpecKept == InitKept /\ [][NextKept]_vars

----------------------------------------------------------------------------
(* Properties *)

\* the caller's operation of that kind has returned without raising
Returned(kind) == Idle /\ op.kind = kind /\ op.err = ""

\* the moderator's call of that kind has returned, its objects still alive
Decided(kind) == Top("mod") = "end_request" /\ op.kind = kind /\ op.err = ""

\* the write in progress differs from the persisted row on a monitored field
InputDiffers == \E f \in cfg.approval_fields : op.input[1][f] # op.pre[1][f]

\* auto_process_approval is the method of the package, which decides nothing
NoOverride == cfg.auto_process_approval = "None"

\* none of the listener's authors makes the built-in rules approve, and the
\* callback decides nothing
NobodyQualifies ==
    LET authors == users["author"]
    IN  /\ NoOverride
        /\ \A i \in DOMAIN authors : ~has_perm(authors[i])
        /\ ~(cfg.auto_approve_staff
             /\ \E i \in DOMAIN authors : is_staff(authors[i]))

\* C1: an update written without the bypass flag that the policy does not
\* approve (no author has the permission, the staff rule does not apply,
\* the diff is not empty) leaves every persisted field of the entity as it
\* was, leaves in the record exactly the monitored and store values of the
\* write, and leaves the status unset.
C1_DeclinedUpdateIsStagedOnly ==
    (Returned("update") /\ ~op.bypass /\ NobodyQualifies /\ InputDiffers) =>
        /\ dbE = op.pre
        /\ dbR[1].fields = Pick(op.input[1], cfg.approval_fields)
        /\ dbR[1].store = Pick(op.input[1], cfg.approval_store_fields)
        /\ dbR[1].approved = Pending

\* a declined update has returned and has replaced an earlier snapshot
C1_Witness ==
    /\ Returned("update") /\ ~op.bypass /\ NobodyQualifies /\ InputDiffers
    /\ op.preR # <<>>
    /\ op.preR[1].fields # dbR[1].fields
    /\ op.preR[1].store # dbR[1].store

\* C2 as stated: after every creation the record holds the input on the
\* monitored and store fields, and the persisted entity holds the defaults
\* on the fields of approval_default and the raw input on the other
\* monitored fields, whatever the configuration and the authors.
C2_CreationAlwaysDefaulted ==
    Returned("create") =>
        /\ dbR[1].fields = Pick(op.input[1], cfg.approval_fields)
        /\ dbR[1].store = Pick(op.input[1], cfg.approval_store_fields)
        /\ \A f \in DOMAIN cfg.approval_default :
              dbE[1][f] = cfg.approval_default[f]
        /\ \A f \in cfg.approval_fields \ DOMAIN cfg.approval_default :
              dbE[1][f] = op.input[1][f]

\* C2: after every creation the record holds the input on the monitored and
\* store fields; when the creation leaves the record unset, the persisted
\* entity holds the defaults on the fields of approval_default and the raw
\* input on the other monitored fields.
C2_PendingCreationDefaulted ==
    Returned("create") =>
        /\ dbR[1].fields = Pick(op.input[1], cfg.approval_fields)
        /\ dbR[1].store = Pick(op.input[1], cfg.approval_store_fields)
        /\ dbR[1].approved = Pending =>
              /\ \A f \in DOMAIN cfg.approval_default :
                    dbE[1][f] = cfg.approval_default[f]
              /\ \A f \in cfg.approval_fields \ DOMAIN cfg.approval_default :
                    dbE[1][f] = op.input[1][f]

\* a creation has returned with the record unset and a default applied over
\* a different input
C2_Witness ==
    /\ Returned("create")
    /\ dbR[1].approved = Pending
    /\ \E f \in DOMAIN cfg.approval_default :
          op.input[1][f] # cfg.approval_default[f]

HelloWorld == [description |-> "Hello", content |-> "World", is_visible |-> TRUE]

\* the record of the scenario holds the snapshot of HelloWorld
HelloWorldStaged(rec) ==
    /\ rec.fields = [description |-> "Hello", content |-> "World"]
    /\ rec.store = [is_visible |-> TRUE]

\* the persisted Entry of the scenario while its creation is not approved
HelloWorldHeld ==
    dbE = <<[description |-> "", content |-> "World", is_visible |-> FALSE]>>

\* C3: with EntryApproval and an author with neither permission nor staff
\* status, creating HelloWorld leaves the record with the snapshot and an
\* unset status and the entity with description "", is_visible false and
\* content "World"; a moderator's approve that follows leaves the entity
\* equal to HelloWorld and the record Approved.
C3_CreateThenApprove ==
    /\ (Returned("create") /\ cfg = EntryApproval /\ op.input = <<HelloWorld>>)
          => /\ HelloWorldStaged(dbR[1])
             /\ dbR[1].approved = Pending
             /\ HelloWorldHeld
    /\ (Decided("approve") /\ cfg = EntryApproval /\ nops = 2
            /\ HelloWorldStaged(op.preR[1]))
          => /\ dbE = <<HelloWorld>>
             /\ approval["mod"][1].approved = Approved
             /\ call["mod"].save => dbR[1].approved = Approved

\* the moderator's approve of the scenario has returned
C3_Witness ==
    /\ Decided("approve") /\ cfg = EntryApproval /\ nops = 2
    /\ HelloWorldStaged(op.preR[1])
    /\ op.pre # dbE

\* C4: in the same scenario a moderator's deny with the reason "policy
\* violation" leaves the entity with description "" and is_visible false
\* and the record Denied; an edit without the bypass flag by the same
\* author that follows, with a non-empty diff, sets the status back to
\* unset and leaves the persisted entity unchanged.
C4_DenyThenEdit ==
    /\ (Decided("deny") /\ cfg = EntryApproval /\ nops = 2
            /\ call["mod"].reason = "policy violation"
            /\ HelloWorldStaged(op.preR[1]))
          => /\ HelloWorldHeld
             /\ approval["mod"][1].approved = Rejected
             /\ approval["mod"][1].info = "policy violation"
             /\ call["mod"].save => dbR[1].approved = Rejected
    /\ (Returned("update") /\ cfg = EntryApproval /\ nops = 3
            /\ ~op.bypass /\ InputDiffers
            /\ op.preR[1].approved = Rejected
            /\ op.preR[1].info = "policy violation"
            /\ HelloWorldStaged(op.preR[1]))
          => /\ dbR[1].approved = Pending
             /\ dbE = op.pre
             /\ HelloWorldHeld

\* the edit that follows the deny of the scenario has returned
C4_Witness ==
    /\ Returned("update") /\ cfg = EntryApproval /\ nops = 3
    /\ ~op.bypass /\ InputDiffers
    /\ op.preR[1].approved = Rejected
    /\ op.preR[1].info = "policy violation"
    /\ HelloWorldStaged(op.preR[1])
    /\ dbR[1].approved = Pending

\* C5 as stated: in every state, also between the INSERT of a new entity
\* and the write of its defaults, the persisted entity holds no value of an
\* unapproved write: while nothing was ever approved, the fields of
\* approval_default hold their defaults.
C5_NeverHoldsUnapproved ==
    (dbE # <<>> /\ ~everApproved) =>
        \A f \in DOMAIN cfg.approval_default :
            dbE[1][f] = cfg.approval_default[f]

\* C6 as stated: every write of a persisted entity is staged (no caller of
\* the model sets the bypass flag), also through the object that onCreate
\* or an approval has written.
C6_EveryCallerWriteIsStaged == Returned("update") => op.stagings >= 1

\* C7: every operation ends within MaxSteps statements and never stops
\* before its end; the writes of the default override and of approve do
\* not enter the listeners again, so an operation stages at most once and
\* after_save's body runs once per entity, after its INSERT.
C7_WritesEndAndStageOnce ==
    /\ op.steps <= MaxSteps
    /\ op.err # "RecursionError"
    /\ ~Idle => ENABLED (\E s \in Sessions : Step(s))
    /\ op.stagings <= 1
    /\ onCreateRuns <= 1
    /\ dbE # <<>> => onCreateRuns = 1
    /\ (Top("author") = "save_table" /\ op.steps > 0)
          => ~Listens(instance["author"][1]) \/ op.kind = "update"

\* a creation has returned after an auto-approval: two bypass writes ran
C7_Witness ==
    /\ Returned("create")
    /\ op.approves >= 1
    /\ op.stagings = 1
    /\ onCreateRuns = 1

\* a listener has staged the caller's write and the write has returned
Evaluated == (Returned("create") \/ Returned("update")) /\ op.stagings = 1

\* the persisted entity the policy compares the snapshot with
EntityAtEvaluation ==
    IF op.kind = "update" THEN op.pre[1]
    ELSE [f \in EntityFields |->
            IF f \in DOMAIN cfg.approval_default THEN cfg.approval_default[f]
            ELSE op.input[1][f]]

\* the entity with the snapshot of the write over it
EntityWithSnapshot ==
    [f \in EntityFields |->
        IF f \in cfg.approval_fields \cup cfg.approval_store_fields
        THEN op.input[1][f] ELSE EntityAtEvaluation[f]]

\* the rule of the policy, on the inputs of the operation
PolicyApproves ==
    LET authors == users["author"]
    IN  \/ \E i \in DOMAIN authors : has_perm(authors[i])
        \/ \A f \in cfg.approval_fields :
              op.input[1][f] = EntityAtEvaluation[f]
        \/ op.kind = "create" /\ cfg.auto_approve_new
        \/ cfg.auto_approve_staff
              /\ \E i \in DOMAIN authors : is_staff(authors[i])

\* C8: after an evaluation of the built-in rules the record is Approved
\* and the snapshot merged exactly when an author has the permission, or
\* the diff is empty, or the entity is new and auto_approve_new is set, or
\* auto_approve_staff is set and an author is staff; otherwise the status
\* is unset and the entity is not merged.
C8_ApprovedIffRule ==
    (Evaluated /\ NoOverride) =>
        IF PolicyApproves
        THEN /\ dbR[1].approved = Approved
             /\ op.approves >= 1
             /\ clean_fields(EntityWithSnapshot) = {}
                   => dbE = <<EntityWithSnapshot>>
        ELSE /\ dbR[1].approved = Pending
             /\ op.approves = 0
             /\ dbE = <<EntityAtEvaluation>>

\* the staff rule alone has approved a write and merged it
C8_Witness ==
    /\ Evaluated /\ NoOverride /\ PolicyApproves
    /\ ~cfg.auto_approve_new
    /\ \A i \in DOMAIN users["author"] : ~has_perm(users["author"][i])
    /\ \E f \in cfg.approval_fields : op.input[1][f] # EntityAtEvaluation[f]
    /\ dbE = <<EntityWithSnapshot>>
    /\ dbE # <<EntityAtEvaluation>>

\* C9: an update without the bypass flag that changes no monitored field
\* has an empty diff after staging and ends with the record Approved by
\* the policy, whatever the permissions of its authors.
C9_UnmonitoredChangeApproves ==
    /\ (op.kind = "update" /\ ~op.bypass /\ ~InputDiffers
            /\ Top("author") = "_auto_process_approval(update=True)")
          => _get_diff(dbR[1], instance["author"][1]) = {}
    /\ (Returned("update") /\ ~op.bypass /\ ~InputDiffers /\ NoOverride)
          => /\ dbR[1].approved = Approved
             /\ op.approves >= 1

\* an update by unqualified authors has changed a field that is not
\* monitored and has ended Approved
C9_Witness ==
    /\ Returned("update") /\ ~op.bypass /\ ~InputDiffers
    /\ NobodyQualifies
    /\ op.input # op.pre
    /\ op.preR[1].approved # Approved
    /\ dbR[1].approved = Approved

\* the user holds the permission or is staff
Qualified(user) == has_perm(user) \/ is_staff(user)

\* the first qualified author, the first author when none qualifies
FirstQualified(authors) ==
    IF \E i \in DOMAIN authors : Qualified(authors[i])
    THEN authors[CHOOSE i \in DOMAIN authors :
                    /\ Qualified(authors[i])
                    /\ \A j \in DOMAIN authors : Qualified(authors[j]) => i <= j]
    ELSE authors[1]

\* C10 as stated: after an auto-approval the moderator of the record is
\* the first author that has the permission or is staff, and the first
\* author when none qualifies.
C10_ModeratorIsFirstQualified ==
    (Evaluated /\ op.approves >= 1) =>
        dbR[1].moderator = FirstQualified(users["author"])

\* C10: after an auto-approval the moderator of the record is the first
\* author of the list, whether that author qualifies or not.
C10_ModeratorIsFirstAuthor ==
    (Evaluated /\ op.approves >= 1) => dbR[1].moderator = users["author"][1]

\* an auto-approval for a list <<unqualified, qualified>>
C10_Witness ==
    /\ Evaluated /\ op.approves >= 1
    /\ Len(users["author"]) = 2
    /\ ~Qualified(users["author"][1])
    /\ Qualified(users["author"][2])
    /\ dbR[1].moderator = users["author"][1]

\* C11: in every policy evaluation the callback is invoked once, after the
\* built-in rules have decided, with the listener's author list, whether
\* the rules approved or not; when the callback approves or denies, the
\* status after the evaluation is the callback's (a deny after a built-in
\* approval leaves the record Denied).
C11_CallbackOnceAndFinal ==
    /\ Evaluated => op.callbacks = <<users["author"]>>
    /\ Top("author") = "auto_process_approval"
          => /\ op.callbacks = <<>>
             /\ op.approves >= 1 <=> PolicyApproves
    /\ (Evaluated /\ cfg.auto_process_approval = "approve")
          => dbR[1].approved = Approved
    /\ (Evaluated /\ cfg.auto_process_approval = "deny")
          => dbR[1].approved = Rejected

\* a callback has denied a write that the built-in rules had approved
C11_Witness ==
    /\ Evaluated /\ cfg.auto_process_approval = "deny"
    /\ PolicyApproves /\ op.approves >= 1
    /\ op.callbacks = <<users["author"]>>
    /\ dbR[1].approved = Rejected

EventsPaired ==
    \A i \in 1..Len(op.events) :
        op.events[i].name = IF i % 2 = 1 THEN "pre_approval"
                            ELSE "post_approval"

\* C14: each approve or deny call that returns emits one pre-decision event
\* with the status from before the call, before the record or the entity
\* changed, then one post-decision event with the new status, after the
\* entity write-back and after the record was persisted when requested;
\* a post event always follows its pre event.
C14_OnePreThenOnePost ==
    /\ EventsPaired
    /\ \A kind \in {"approve", "deny"} : Decided(kind) =>
          /\ Len(op.events) = 2
          /\ LET pre == op.events[1]
                 post == op.events[2]
             IN  /\ pre.status = op.preR[1].approved
                 /\ pre.instance = op.preR
                 /\ pre.entity = op.pre
                 /\ pre.record = op.preR
                 /\ post.status = IF kind = "approve" THEN Approved
                                  ELSE Rejected
                 /\ post.instance = approval["mod"]
                 /\ post.entity = dbE
                 /\ post.record = dbR
                 /\ call["mod"].save => post.record = approval["mod"]
    /\ (Returned("create") \/ Returned("update")) =>
          /\ Len(op.events) = 2 * (op.approves + op.denies)
          /\ \A i \in 1..Len(op.events) :
                op.events[i].name = "post_approval" =>
                    /\ op.events[i].record = op.events[i].instance
                    /\ op.events[i].status = op.events[i].record[1].approved

\* an approve with save has returned and wrote the entity: the pre event saw
\* the former status and entity, the post event the written ones
C14_Witness ==
    /\ Decided("approve")
    /\ call["mod"].save
    /\ Len(op.events) = 2
    /\ op.events[1].status = Rejected
    /\ op.events[2].status = Approved
    /\ op.events[1].entity # op.events[2].entity
    /\ op.events[2].record[1].approved = Approved

\* an approve has returned after validation rejected some staged value
RejectedInApprove == Decided("approve") /\ op.rejected # {}

\* the entity part of a partial failure: the rejected fields are persisted
\* with the value they had before the approve, the other staged fields with
\* their staged value
PartiallyMerged ==
    RejectedInApprove =>
        LET rec == op.preR[1]
            staged == Applied(rec, [vals |-> op.pre[1]])
        IN  /\ \A f \in op.rejected : dbE[1][f] = op.pre[1][f]
            /\ \A f \in (DOMAIN rec.fields \cup DOMAIN rec.store) \ op.rejected :
                  dbE[1][f] = staged[f]

\* C15: when the record stages a valid A and a B that validation rejects,
\* after approve the persisted entity has the staged A and the former B, and
\* the result the caller of approve receives names B as rejected.
C15_RejectedFieldsReported ==
    /\ PartiallyMerged
    /\ RejectedInApprove => call["mod"].returned # "None"

\* C16: a validation failure never aborts a merge: whenever entity
\* validation rejects fields while staged or default values are applied,
\* in approve or in the default override of a creation, also for a
\* rejected field that is no key of the record, the operation completes
\* without a thrown error and the other fields are committed.
C16_ValidationNeverAborts ==
    op.rejected # {} =>
        /\ op.err = ""
        /\ (Idle \/ Top("mod") = "end_request") =>
              \A f \in EntityFields \ op.rejected :
                 op.kind = "create" /\ f \in DOMAIN cfg.approval_default
                    => dbE[1][f] = cfg.approval_default[f]

\* C17: approve is idempotent on the entity: whatever the record and the
\* entity (also with staged values that validation rejects), a second
\* approve right after a first one, the record unchanged in between, leaves
\* the persisted entity as the first one left it.
C17_ApproveTwiceSameEntity ==
    (Decided("approve") /\ op.again) => dbE = op.pre

\* a second approve in a row has returned; the first one had replaced the
\* default value of the creation by the staged one
C17_Witness ==
    /\ Decided("approve")
    /\ op.again
    /\ dbE = op.pre
    /\ \E f \in DOMAIN cfg.approval_default :
          /\ f \in DOMAIN dbR[1].store
          /\ dbR[1].store[f] # cfg.approval_default[f]
          /\ dbE[1][f] = dbR[1].store[f]

\* a second approve in a row has returned though validation rejected a
\* staged value both times
C17_RejectedTwice ==
    Decided("approve") /\ op.again /\ op.rejected # {} /\ dbE = op.pre

\* the persisted entity and record
Persisted == [entity |-> dbE[1], record |-> dbR[1]]

\* what a listened update with the values `vals` by `authors` leaves
\* persisted when it runs alone from the entity and record `db`: the values
\* are staged, the instance reverted, and the record approved and merged
\* when a rule of the policy says so
SerialUpdate(db, vals, authors) ==
    LET staged == Staged(db.record, [vals |-> vals])
        row == [vals |-> db.entity]
        set == Applied(staged, row)
        merged == Restored(set, Original(staged, row), clean_fields(set))
    IN  IF AutoApproves(staged, row, authors, TRUE) \/ StaffApproves(authors)
        THEN [entity |-> merged,
              record |-> Approving(staged, ApprovingUser(authors))]
        ELSE [entity |-> db.entity, record |-> staged]

\* the entity, the staged values and the status of `db`
Payloads(db) ==
    [entity |-> db.entity, fields |-> db.record.fields,
     store |-> db.record.store, approved |-> db.record.approved]

\* the first writer, when it returns before the second one starts, leaves
\* what SerialUpdate computes
SerialUpdateIsUpdate ==
    (Returned("update") /\ Len(op.input) = 1)
    => Payloads(Persisted) =
          Payloads(SerialUpdate([entity |-> op.pre[1], record |-> op.preR[1]],
                                op.input[1], cfg._get_authors))

\* both writers have returned
BothReturned == Idle /\ op.kind = "update" /\ Len(op.input) = 2 /\ op.err = ""

\* C18: two concurrent listened updates U1 and U2 of one entity serialize:
\* in every interleaving of their statements the persisted record and
\* entity at the end are those of U1 then U2 or those of U2 then U1, never
\* a mix of both payloads.
C18_ConcurrentUpdatesSerialize ==
    BothReturned =>
        LET before == [entity |-> op.pre[1], record |-> op.preR[1]]
            authors == cfg._get_authors
            U1 == op.input[1]
            U2 == op.input[2]
        IN  Payloads(Persisted) \in
               {Payloads(SerialUpdate(SerialUpdate(before, U1, authors),
                                      U2, authors)),
                Payloads(SerialUpdate(SerialUpdate(before, U2, authors),
                                      U1, authors))}

\* a record in Draft: draft mark set, status unset
InDraft(rec) == rec.draft /\ rec.approved = Pending

\* a record waiting for moderation: draft mark cleared, status unset
InPending(rec) == ~rec.draft /\ rec.approved = Pending

\* the step creates the row of the record, in Draft
BornInDraft == (dbR = <<>> /\ dbR' # <<>>) => InDraft(dbR'[1])

C19_Submitted ==
    /\ Top("mod") = "end_request"
    /\ op.kind = "submit"
    /\ call["mod"].returned = "True"
    /\ InDraft(op.preR[1])
    /\ InPending(dbR[1])

\* a listened edit of an entity whose record was Approved or Denied has
\* returned, the callback being the method of the package
DecidedRecordEdited ==
    /\ Returned("update")
    /\ ~op.bypass
    /\ NoOverride
    /\ op.preR[1].approved \in {Approved, Rejected}

\* C20 as stated: a listened edit of an entity whose record is Approved or
\* Denied and which produces no diff leaves the record in the status it had
\* (Denied stays Denied, Approved stays Approved); the status returns to
\* unset only when the new diff is non-empty.
C20_NoDiffEditKeepsStatus ==
    DecidedRecordEdited =>
        /\ ~InputDiffers => dbR[1].approved = op.preR[1].approved
        /\ dbR[1].approved = Pending => InputDiffers

\* C20, as the code has it: a listened edit of an entity whose record is
\* Approved or Denied and which produces no diff leaves the record Approved
\* (Approved stays Approved, Denied becomes Approved); the status returns
\* to unset only when the new diff is non-empty.
C20_NoDiffEditIsApproved ==
    DecidedRecordEdited =>
        /\ ~InputDiffers => dbR[1].approved = Approved
        /\ dbR[1].approved = Pending => InputDiffers

\* an edit without diff of an entity whose record was Denied has returned
C20_Witness ==
    /\ DecidedRecordEdited
    /\ op.preR[1].approved = Rejected
    /\ ~InputDiffers
    /\ dbR[1].approved = Approved

\* an edit with a diff of an entity whose record was Approved has returned
\* and left the status unset
C20_BackToUnset ==
    /\ DecidedRecordEdited
    /\ op.preR[1].approved = Approved
    /\ InputDiffers
    /\ dbR[1].approved = Pending

\* the statements still to run in session s
Pending_(s) == {stack[s][i] : i \in DOMAIN stack[s]}

\* the step is a statement of a listener that raises while it resolves the
\* authors, computes the diff or evaluates the policy
StagingFails(s) ==
    /\ Top(s) \in {"_get_authors", "_auto_process_approval(update=True)",
                   "_auto_process_approval(update=False)"}
    /\ op.kind \in {"create", "update"}
    /\ op.err = ""
    /\ op'.err \in {"IndexError", "AttributeError", "KeyError"}

\* C21: a staging failure never blocks the entity write: when the diff or
\* the policy evaluation of a listener fails (an empty author list while
\* the change qualifies for auto-approval, author resolution failing), the
\* write of the entity that triggered it still takes place and the record
\* is left with status unset.
C21_StagingFailureKeepsWrite ==
    [][\A s \in Sessions : StagingFails(s) =>
          /\ "save_table" \in Pending_(s) => "save_table" \in
                {stack'[s][i] : i \in DOMAIN stack'[s]}
          /\ dbR'[1].approved = Pending]_vars

\* a decision has been recorded since the record was last staged: staging
\* clears the persisted status (line 214) and only a saved approve or deny
\* sets it (lines 369, 396)
DecisionRecorded == dbR[1].approved # Pending

\* diff(record, entity) on the persisted record and entity
PersistedDiff == _get_diff(dbR[1], [vals |-> dbE[1]])

C22_BypassWriteClosesDiff ==
    /\ Returned("update")
    /\ op.bypass
    /\ dbR[1].approved = Pending
    /\ PersistedDiff = {}
    /\ dbR = op.preR


\* the names the class monitors or stores now
ConfiguredFields == _get_field_names \cup _get_store_field_names

\* C23: once an approve has returned, also after a deployment took a name
\* out of the monitored or the stored fields while a snapshot was staged,
\* every entity field that is not configured any more is as it was before
\* the merge: stale keys of the record are not applied.
C23_StaleKeysNeverApplied ==
    Returned("approve") =>
        \A f \in EntityFields \ ConfiguredFields : dbE[1][f] = op.pre[1][f]

\* a staged key that is configured no more has been merged into the row
C23_StaleKeyApplied ==
    /\ Returned("approve")
    /\ \E f \in DOMAIN dbR[1].fields \ ConfiguredFields :
          dbE[1][f] = dbR[1].fields[f] /\ dbE[1][f] # op.pre[1][f]

\* the diff of the specification: names staged and monitored now, whose
\* staged value is not the entity's
SchemaDiff(rec, inst) ==
    {f \in DOMAIN rec.fields \cap _get_field_names :
        rec.fields[f] # inst.vals[f]}

\* C24: a call of diff on a record returns the names that are both staged
\* and monitored now and whose staged value differs from the entity's; a
\* staged name that is monitored no more is ignored and the call does not
\* fail.
C24_DiffIgnoresStaleFields ==
    (op.kind = "diff" /\ Top("mod") = "end_request") =>
        /\ op.err = ""
        /\ call["mod"].diff = SchemaDiff(dbR[1], [vals |-> dbE[1]])

\* diff has returned the names that differ, no stale key in the record
C24_DiffReturned ==
    /\ op.kind = "diff" /\ Top("mod") = "end_request" /\ op.err = ""
    /\ call["mod"].diff # {}
    /\ call["mod"].diff = SchemaDiff(dbR[1], [vals |-> dbE[1]])


\* C25: between operations, after creates, updates, decisions and
\* deletions, a live entity has its one sandbox record and a deleted
\* entity has none: the record appears with the entity's first save and
\* goes only with the entity.
C25_OneRecordPerLiveEntity ==
    Idle => (dbE # <<>> <=> dbR # <<>>)

\* the entity's deletion has taken its record along
C25_CascadeDeleted ==
    Returned("delete") /\ op.pre # <<>> /\ op.preR # <<>>
    /\ dbE = <<>> /\ dbR = <<>>

\* an entity saved first with the listeners switched off has no record
C25_CreatedWithoutRecord ==
    Returned("create") /\ op.bypass /\ dbE # <<>> /\ dbR = <<>>

\* the record of a live entity is gone with its moderator's account
C25_RecordDeletedAlone ==
    Idle /\ op.kind = "delete_user" /\ dbE # <<>> /\ dbR = <<>>


\* the operation of the caller has ended with an exception
Failed == Idle /\ op.err # "" /\ op.kind \in {"create", "update", "approve", "deny"}

\* C26: when a creation, an update, an approve or a deny has failed
\* partway, the entity row and the record row are both as they were
\* before the operation.
C26_FailureLeavesRowsUnchanged ==
    Failed => dbE = op.pre /\ dbR = op.preR

\* a failed operation has left the record staged anew
C26_FailedAfterStaging ==
    Failed /\ op.stagings > 0 /\ dbR # op.preR


\* C27: approve(user, save=False) applies the sandbox to the entity in
\* memory and leaves the entity row as it was; approve writes the entity
\* row only when save is True.
C27_ApproveWithoutSaveKeepsEntityRow ==
    (Decided("approve") /\ ~call["mod"].save) => dbE = op.pre

\* approve(save=False) has written the staged values to the entity row
\* while the record row stays undecided
C27_EntityRowWritten ==
    /\ Decided("approve") /\ ~call["mod"].save
    /\ dbE # op.pre /\ dbE[1] = instance["mod"][1].vals
    /\ dbR = op.preR


\* the authors of the claim: the user of the request when the class asks
\* for it and the entity carries a request with a user, else the list of
\* the integrator's _get_authors
ResolvedAuthors(inst) ==
    IF cfg.auto_approve_by_request /\ inst.request \in Users
    THEN <<inst.request>> ELSE cfg._get_authors

\* C28: the author resolution of a listened write returns, and the authors
\* handed to the policy are the integrator's list when
\* auto_approve_by_request is off, the request's user when it is on and
\* the entity carries a request with a user, and the integrator's list
\* otherwise.
C28_AuthorsResolved ==
    [][\A s \in Sessions : _get_authors(s) =>
          /\ op'.err = ""
          /\ users'[s] = ResolvedAuthors(instance[s][1])]_vars

\* the class asks for the request's user, the request has none, and the
\* integrator's list was handed to the policy
C28_FallsBackToIntegrator ==
    /\ cfg.auto_approve_by_request
    /\ Returned("update") /\ ~op.bypass
    /\ instance["author"][1].request = "nouser"
    /\ users["author"] = cfg._get_authors

\* the class asks for the request's user and the entity carries no request
C28_NoRequestRaises ==
    /\ cfg.auto_approve_by_request
    /\ Idle /\ op.kind = "update" /\ op.err = "AttributeError"
    /\ instance["author"][1].request = "absent"


\* what approve(user, save=True) leaves from `db` when it runs alone
SerialApprove(db, user) ==
    LET row == [vals |-> db.entity]
        set == Applied(db.record, row)
        merged == Restored(set, Original(db.record, row), clean_fields(set))
    IN  [entity |-> merged, record |-> Approving(db.record, user)]

\* the writer and the moderator have both returned
WriterAndModeratorReturned ==
    Idle /\ op.kind = "update" /\ Len(op.input) = 2 /\ op.err = ""

\* C29: a moderator's approve that runs concurrently with a listened update
\* of the same entity leaves the entity and the record of approve then
\* update, or those of update then approve.
C29_ApproveAndUpdateSerialize ==
    WriterAndModeratorReturned =>
        LET before == [entity |-> op.pre[1], record |-> op.preR[1]]
            authors == cfg._get_authors
            U == op.input[1]
        IN  \E u \in Moderators :
              Payloads(Persisted) \in
                 {Payloads(SerialUpdate(SerialApprove(before, u), U, authors)),
                  Payloads(SerialApprove(SerialUpdate(before, U, authors), u))}

\* the approve has committed a snapshot older than the one the writer
\* staged: the record is Approved with the values staged before the update
C29_StaleSnapshotApproved ==
    /\ WriterAndModeratorReturned
    /\ dbR[1].approved = Approved
    /\ dbR[1].fields = op.preR[1].fields
    /\ dbR[1].fields # Pick(op.input[1], _get_field_names)


\* C30: one evaluation of the policy calls approve at most once, also when
\* several rules apply together, as when an author has the moderation
\* permission and auto_approve_staff is set with a staff author.
C30_PolicyApprovesAtMostOnce ==
    (Evaluated /\ NoOverride) => op.approves <= 1

\* both rules applied in one evaluation and approve ran once for each
C30_ApprovedTwice ==
    /\ Evaluated /\ NoOverride
    /\ \E i \in DOMAIN users["author"] : has_perm(users["author"][i])
    /\ StaffApproves(users["author"])
    /\ op.approves = 2
    /\ Len(op.events) = 4


\* C31: in every configuration, one that lists a field both as monitored
\* and as stored included, after an approve in which validation rejected
\* some fields, every rejected field of the entity has the value it had
\* before the approve and every other staged field has its staged value.
C31_RejectedFieldsKeepFormerValue ==
    (Decided("approve") /\ op.rejected # {}) =>
        LET rec == op.preR[1]
            staged == Applied(rec, [vals |-> op.pre[1]])
        IN  /\ \A f \in op.rejected : dbE[1][f] = op.pre[1][f]
            /\ \A f \in (DOMAIN rec.fields \cup DOMAIN rec.store)
                         \ op.rejected : dbE[1][f] = staged[f]

\* a rejected field that is both monitored and stored was written to the
\* entity row with the rejected value
C31_RejectedValuePersisted ==
    /\ Decided("approve") /\ op.rejected # {}
    /\ \E f \in op.rejected \cap _get_field_names \cap _get_store_field_names :
          /\ dbE[1][f] # op.pre[1][f]
          /\ dbE[1][f] = op.preR[1].store[f]
          /\ clean_fields(dbE[1]) # {}


\* C32: submit_approval on a record in draft clears the draft mark, saves
\* the record and returns True, with status, fields, store, moderator,
\* approval date and info as they were; on a record out of draft it
\* returns False and changes nothing, so a second call changes nothing.
\* The entity row is never touched.
C32_SubmitClearsDraftOnly ==
    Decided("submit") =>
        LET pre == op.preR[1]
        IN  /\ dbE = op.pre
            /\ IF pre.draft
               THEN /\ call["mod"].returned = "True"
                    /\ ~dbR[1].draft
                    /\ dbR[1] = [pre EXCEPT !.draft = FALSE]
               ELSE /\ call["mod"].returned = "False"
                    /\ dbR = op.preR

\* a second submit has returned False on the record a first submit took
\* out of draft
C32_Witness ==
    /\ Decided("submit")
    /\ InPending(op.preR[1]) /\ op.preR[1].moderator = NoUser
    /\ call["mod"].returned = "False"
    /\ dbR = op.preR


\* a listened creation has returned whose monitored values are those the
\* defaults leave on the entity, the callback being the package's
CreatedAtDefaults ==
    /\ Returned("create") /\ ~op.bypass /\ NoOverride
    /\ \A f \in cfg.approval_fields : op.input[1][f] = EntityAtEvaluation[f]

\* C33: a creation whose monitored fields are not changed by the default
\* override (the diff is empty after it) ends with the record Approved and
\* with the stored fields back on the entity row at their input values,
\* also when auto_approve_new is off and no author qualifies.
C33_CreationAtDefaultsIsApproved ==
    CreatedAtDefaults =>
        /\ dbR[1].approved = Approved
        /\ op.approves >= 1
        /\ \A f \in cfg.approval_store_fields : dbE[1][f] = op.input[1][f]

\* such a creation by an unqualified author, auto_approve_new off, whose
\* stored flag the default had changed
C33_Witness ==
    /\ CreatedAtDefaults
    /\ ~cfg.auto_approve_new /\ NobodyQualifies
    /\ "is_visible" \in cfg.approval_store_fields
    /\ op.input[1].is_visible # cfg.approval_default.is_visible
    /\ dbE[1].is_visible = op.input[1].is_visible
    /\ dbR[1].approved = Approved


\* C34: during and after a listened write of an existing entity, whatever
\* the policy decides, every field of the entity row that is neither
\* monitored nor stored has the value it had before the write.
C34_UnconfiguredFieldsKept ==
    (op.kind = "update" /\ ~op.bypass) =>
        \A f \in EntityFields \ ConfiguredFields : dbE[1][f] = op.pre[1][f]

\* a listened update has changed a field that is neither monitored nor
\* stored, the policy has approved and merged, and the row keeps the old
\* value of that field
C34_Witness ==
    /\ Returned("update") /\ ~op.bypass
    /\ op.approves >= 1 /\ dbR[1].approved = Approved
    /\ \E f \in EntityFields \ ConfiguredFields :
          /\ op.input[1][f] # op.pre[1][f]
          /\ dbE[1][f] = op.pre[1][f]


\* C35: after a listened update, the store slot of the record holds the
\* stored fields as the instance of that write carried them (for an entity
\* reloaded while pending: the values the defaults left), not those given
\* at creation; an approve then sets the stored fields of the entity row
\* to the values of the slot.
C35_StoreFollowsLastStagedWrite ==
    /\ (Returned("update") /\ ~op.bypass) =>
            dbR[1].store = Pick(op.input[1], _get_store_field_names)
    /\ Decided("approve") =>
            \A f \in DOMAIN op.preR[1].store \ op.rejected :
                dbE[1][f] = op.preR[1].store[f]

\* an update of a pending entity, its stored flag left as the defaults
\* made it, has replaced the flag staged at creation
C35_Witness ==
    /\ Returned("update") /\ ~op.bypass
    /\ op.preR[1].approved = Pending /\ dbR[1].approved = Pending
    /\ "is_visible" \in DOMAIN op.preR[1].store
    /\ op.preR[1].store.is_visible # op.pre[1].is_visible
    /\ op.input[1].is_visible = op.pre[1].is_visible
    /\ dbR[1].store.is_visible = op.pre[1].is_visible

\* an approve has set the stored flag of the entity row from the slot
C35_StoreApplied ==
    /\ Decided("approve")
    /\ "is_visible" \in DOMAIN op.preR[1].store
    /\ op.preR[1].store.is_visible # op.pre[1].is_visible
    /\ dbE[1].is_visible = op.preR[1].store.is_visible


\* the rows of InitKept, as a creation of Spec leaves them
CreatedRows ==
    /\ Returned("create") /\ cfg = EntryApproval
    /\ op.input[1] \in CreatedInputs
    /\ dbE = <<[op.input[1] EXCEPT !.is_visible = FALSE, !.description = ""]>>
    /\ dbR = <<[DynamicSandbox EXCEPT
                  !.fields = [description |-> op.input[1].description,
                              content |-> op.input[1].content],
                  !.store = [is_visible |-> op.input[1].is_visible]]>>


\* C36: a staging changes the fields slot, the store slot and the status
\* (set to unset) of the record row and nothing else: moderator, info,
\* approval date and draft mark keep the values of the last decision, so a
\* record that is Pending again after a decision still names its moderator
\* and is out of draft.
C36_StagingKeepsDecision ==
    [][\A s \in Sessions : (_update_sandbox(s) /\ dbR # <<>>) =>
          /\ dbR'[1].approved = Pending
          /\ dbR'[1] = [dbR[1] EXCEPT !.fields = dbR'[1].fields,
                                      !.store = dbR'[1].store,
                                      !.approved = Pending]]_vars

\* a decided record is Pending again after a staging, its moderator, info
\* and approval date kept, out of draft
C36_Witness ==
    /\ Returned("update") /\ ~op.bypass /\ op.stagings = 1
    /\ op.preR[1].approved \in {Approved, Rejected}
    /\ op.preR[1].moderator # NoUser
    /\ dbR[1].approved = Pending
    /\ dbR[1].moderator = op.preR[1].moderator
    /\ dbR[1].info = op.preR[1].info
    /\ dbR[1].approval_date = op.preR[1].approval_date
    /\ ~dbR[1].draft

\* a staging made from a record object loaded before the decision has
\* put the row back in draft, its moderator forgotten
C36_DecisionOverwritten ==
    /\ Returned("update") /\ ~op.bypass /\ op.stagings = 1
    /\ op.preR[1].approved = Rejected /\ op.preR[1].moderator # NoUser
    /\ dbR[1].approved = Pending
    /\ dbR[1].moderator = NoUser
    /\ dbR[1].draft


\* the row of the record and the record objects in memory
Records == {dbR[i] : i \in DOMAIN dbR}
           \cup UNION {{approval[s][i] : i \in DOMAIN approval[s]} :
                           s \in Sessions}

\* C37: in every reachable state a record that is Approved or Denied is
\* out of draft, and a record that is Approved has an approval date. (A
\* Denied record may have none, or that of an earlier approval: deny
\* never writes the date.)
C37_DecidedIsOutOfDraft ==
    \A rec \in Records :
        /\ rec.approved \in {Approved, Rejected} => ~rec.draft
        /\ rec.approved = Approved => rec.approval_date # <<>>

\* a record denied by a moderator, never approved: out of draft, no date
C37_Witness ==
    /\ Returned("deny")
    /\ op.preR[1].draft
    /\ dbR[1].approved = Rejected
    /\ ~dbR[1].draft
    /\ dbR[1].approval_date = <<>>

\* a Denied record that carries the date of an earlier approval
C37_DeniedWithEarlierDate ==
    /\ Returned("deny")
    /\ dbR[1].approved = Rejected
    /\ dbR[1].approval_date # <<>>
    /\ dbR[1].approval_date = op.preR[1].approval_date


\* C38: the draft mark is monotonic: once the row of a record is out of
\* draft, no create, update, submit, approve or deny puts it back in
\* draft.
C38_DraftNeverComesBack ==
    [][(dbR # <<>> /\ dbR' # <<>> /\ ~dbR[1].draft) => ~dbR'[1].draft]_vars

\* a row out of draft by a moderator's decision is in draft again after
\* an update
C38_BackInDraft ==
    /\ Returned("update") /\ ~op.bypass
    /\ ~op.preR[1].draft /\ op.preR[1].moderator # NoUser
    /\ dbR[1].draft

====
